---------------------------- MODULE Spec2Model ----------------------------
(* Model of xword_gen.py: the crossword generator.                          *)
(* generate() is the state machine; init_grid, place_first, place_word,     *)
(* find_best_placement, is_valid_placement, is_adjacent_word and            *)
(* count_blanks are operators computed the way the Python code computes     *)
(* them.  Grid indices are 0-based as in the source; a word is a sequence   *)
(* of one-character strings, so word[i] of the source is At(word, i).       *)
EXTENDS Integers, Sequences, FiniteSets, TLC

(***************************************************************************)
(* Inputs                                                                  *)
(***************************************************************************)

\* Word lists generate() is called with (the wordlist argument): the empty
\* list; one word; two words without a common letter (every attempt is
\* incomplete, the grid grows by 20); two words that cross on some draws only
\* on the 3x3 grid and on every draw from 4x4 on; four words given out of
\* length order, none placeable on 3x3 and all on 4x4; two words that
\* start with the same letter, so that the second is placed through cell
\* (0, 0) with letter index 0; three words of which two cross and the third
\* shares no letter with them; five words that are never all placed and
\* whose attempts build runs longer than the longest word.
WordLists ==
  { << >>,
    << <<"a","b">> >>,
    << <<"a","b","c">> >>,
    << <<"a","b">>, <<"c","d">> >>,
    << <<"a","b","c">>, <<"c","d","c">> >>,
    << <<"d","b">>, <<"a","d","d">>, <<"b","a">>, <<"d","c","d">> >>,
    << <<"a","b">>, <<"a","a">> >>,
    << <<"a","b">>, <<"b","a">>, <<"c","d">> >>,
    << <<"b","a","b">>, <<"a","a","a">>, <<"a","c","a">>, <<"c","c","a">>,
       <<"a","b","a">> >> }

\* the blank cell of init_grid
Blank == " "

\* the attempt budget of generate
max_iter == 100

\* the escalation period of generate (i % 5 == 0)
EscalationPeriod == 5

(***************************************************************************)
(* Python primitives                                                       *)
(***************************************************************************)

\* word[i] with a 0-based index
At(word, i) == word[i + 1]

\* Insert w into a list already sorted by descending length, after every
\* element that is at least as long (sorted() is stable, also with reverse).
RECURSIVE InsertByLen(_, _)
InsertByLen(w, s) ==
  IF s = << >> THEN << w >>
  ELSE IF Len(Head(s)) >= Len(w) THEN << Head(s) >> \o InsertByLen(w, Tail(s))
  ELSE << w >> \o s

\* sorted(wordlist, key=len, reverse=True)
RECURSIVE SortedByLen(_)
SortedByLen(wl) ==
  IF wl = << >> THEN << >>
  ELSE InsertByLen(wl[Len(wl)], SortedByLen(SubSeq(wl, 1, Len(wl) - 1)))

\* len(grid)
SizeOf(grid) == Cardinality(DOMAIN grid)

\* A list index Python accepts: negative indices count from the end.
IndexOK(k, size) == k >= 0 - size /\ k < size

\* The index inside [0, size) the claim of in-bounds access is about.
Inside(k, size) == k >= 0 /\ k < size

\* The position a Python index denotes.
Norm(k, size) == IF k < 0 THEN k + size ELSE k

\* grid[r][c]; "IndexError" stands for the exception of an index out of range.
Rd(grid, r, c) ==
  LET size == SizeOf(grid) IN
  IF IndexOK(r, size) /\ IndexOK(c, size)
  THEN grid[Norm(r, size)][Norm(c, size)]
  ELSE "IndexError"

\* grid[r][c] = ch
Wr(grid, r, c, ch) ==
  LET size == SizeOf(grid) IN
  IF IndexOK(r, size) /\ IndexOK(c, size)
  THEN [grid EXCEPT ![Norm(r, size)][Norm(c, size)] = ch]
  ELSE grid

(***************************************************************************)
(* init_grid, place_word, count_blanks                                     *)
(***************************************************************************)

init_grid(size) == [r \in 0..(size - 1) |-> [c \in 0..(size - 1) |-> Blank]]

\* The cell the i-th letter of a word goes to, for a word matched at
\* (row, col) with its letter letter_idx.
CellOf(row, col, letter_idx, direction, i) ==
  IF direction = "H" THEN << row, col - letter_idx + i >>
  ELSE << row - letter_idx + i, col >>

\* AnchorOf recording the matched cell itself, not shifted by letter_idx.
AnchorOfMatched(row, col, letter_idx, direction) == << row, col >>

\* The position place_word records in the placement map.
AnchorOf(row, col, letter_idx, direction) ==
  CellOf(row, col, letter_idx, direction, 0)

\* The for loop of place_word: write the letters i, i+1, ... of the word.
RECURSIVE WriteLetters(_, _, _, _, _, _, _)
WriteLetters(grid, word, letter_idx, row, col, direction, i) ==
  IF i >= Len(word) THEN grid
  ELSE LET cell == CellOf(row, col, letter_idx, direction, i) IN
       WriteLetters(Wr(grid, cell[1], cell[2], At(word, i)),
                    word, letter_idx, row, col, direction, i + 1)

\* place_word: the new grid and the new placement map.
place_word(grid, word, letter_idx, row, col, direction, placements, wordnum) ==
  [ grid |-> WriteLetters(grid, word, letter_idx, row, col, direction, 0),
    placements |->
      [ k \in (DOMAIN placements) \cup {wordnum} |->
          IF k = wordnum
          THEN [ word |-> word,
                 pos |-> AnchorOf(row, col, letter_idx, direction),
                 dir |-> direction ]
          ELSE placements[k] ] ]

\* The cells place_word writes.
PlaceWordCells(word, letter_idx, row, col, direction) ==
  { CellOf(row, col, letter_idx, direction, i) : i \in 0..(Len(word) - 1) }

count_blanks(grid) ==
  LET size == SizeOf(grid) IN
  Cardinality({ rc \in (0..(size - 1)) \X (0..(size - 1)) :
                  grid[rc[1]][rc[2]] = Blank })

(***************************************************************************)
(* is_adjacent_word                                                        *)
(***************************************************************************)

\* len(max(wordlist_sorted, key=len))
MaxLen(wordlist_sorted) ==
  LET lens == { Len(wordlist_sorted[j]) : j \in DOMAIN wordlist_sorted } IN
  CHOOSE m \in lens : \A n \in lens : n <= m

\* The cell i steps from (row, col) along the direction; i may be negative.
Along(row, col, direction, i) ==
  IF direction = "V" THEN << row + i, col >> ELSE << row, col + i >>

\* The "look up" loop: the letters before (row, col), i = 1 .. max_len - 1,
\* stopping at the grid edge or at a blank cell.
RECURSIVE LookBack(_, _, _, _, _, _, _)
LookBack(grid, row, col, direction, i, max_len, word) ==
  IF i >= max_len THEN word
  ELSE LET cell == Along(row, col, direction, 0 - i) IN
       IF (IF direction = "V" THEN cell[1] ELSE cell[2]) >= 0
       THEN IF Rd(grid, cell[1], cell[2]) = Blank THEN word
            ELSE LookBack(grid, row, col, direction, i + 1, max_len,
                          << Rd(grid, cell[1], cell[2]) >> \o word)
       ELSE word

\* The "look down" loop: the letters after (row, col).
RECURSIVE LookAhead(_, _, _, _, _, _, _)
LookAhead(grid, row, col, direction, i, max_len, word) ==
  IF i >= max_len THEN word
  ELSE LET cell == Along(row, col, direction, i) IN
       IF (IF direction = "V" THEN cell[1] ELSE cell[2]) < SizeOf(grid)
       THEN IF Rd(grid, cell[1], cell[2]) = Blank THEN word
            ELSE LookAhead(grid, row, col, direction, i + 1, max_len,
                           word \o << Rd(grid, cell[1], cell[2]) >>)
       ELSE word

\* The candidate word is_adjacent_word builds through (row, col).
AdjacentRun(grid, row, col, direction, wordlist_sorted) ==
  LET max_len == MaxLen(wordlist_sorted) IN
  LookAhead(grid, row, col, direction, 1, max_len,
            LookBack(grid, row, col, direction, 1, max_len,
                     << Rd(grid, row, col) >>))

\* word in wordlist_sorted
InList(word, wordlist_sorted) ==
  \E j \in DOMAIN wordlist_sorted : wordlist_sorted[j] = word

is_adjacent_word(grid, row, col, direction, wordlist_sorted) ==
  InList(AdjacentRun(grid, row, col, direction, wordlist_sorted),
         wordlist_sorted)

(***************************************************************************)
(* is_valid_placement                                                      *)
(***************************************************************************)

\* The result False of is_valid_placement.
NoFit == [valid |-> FALSE, n |-> 0]

\* SpanInGrid without the test of the right or lower bound.
SpanInGridLowOnly(start, len, size) == ~(start < 0)

\* The bounds check: the word's span start .. start + len - 1 is in the grid.
SpanInGrid(start, len, size) == ~(start < 0 \/ start + len > size)

\* LetterFits without the comparison with the letter already in the cell.
LetterFitsAnything(cell, ch) == TRUE

\* The collision check: the cell is blank or holds the word's letter.
LetterFits(cell, ch) == cell \in {Blank, ch}

\* The coordinate of the first letter along the placement axis.
StartOf(row, col, letter_idx, direction) ==
  IF direction = "H" THEN col - letter_idx ELSE row - letter_idx

\* The direction of the words crossing a placement.
Perp(direction) == IF direction = "H" THEN "V" ELSE "H"

\* The neighbour of a cell on the perpendicular axis: d = -1 is the row above
\* (H) or the column to the left (V), d = 1 the row below or column to the right.
SideOf(cell, direction, d) ==
  IF direction = "H" THEN << cell[1] + d, cell[2] >>
  ELSE << cell[1], cell[2] + d >>

\* The guard of a neighbour check: row > 0, row < size - 1 (H), col > 0,
\* col < size - 1 (V).
SideGuard(cell, direction, d, size) ==
  LET p == IF direction = "H" THEN cell[1] ELSE cell[2] IN
  IF d < 0 THEN p > 0 ELSE p < size - 1

\* The adjacency test of one neighbour: it is looked at, is not blank, and
\* the letter is not the anchor letter.
SideOccupied(grid, cell, direction, d, i, letter_idx) ==
  /\ SideGuard(cell, direction, d, SizeOf(grid))
  /\ Rd(grid, SideOf(cell, direction, d)[1], SideOf(cell, direction, d)[2]) # Blank
  /\ i # letter_idx

\* The loop over the letters of the word, from letter i with num_overlaps n.
RECURSIVE LetterLoop(_, _, _, _, _, _, _, _, _)
LetterLoop(grid, word, letter_idx, row, col, direction, wordlist_sorted, i, n) ==
  IF i >= Len(word) THEN [valid |-> TRUE, n |-> n]
  ELSE
    LET cell == CellOf(row, col, letter_idx, direction, i)
        here == Rd(grid, cell[1], cell[2])
        n1 == IF here = At(word, i) THEN n + 1 ELSE n
        occ1 == SideOccupied(grid, cell, direction, -1, i, letter_idx)
        s1 == SideOf(cell, direction, -1)
        n2 == IF occ1 THEN n1 + 1 ELSE n1
        occ2 == SideOccupied(grid, cell, direction, 1, i, letter_idx)
        s2 == SideOf(cell, direction, 1)
        n3 == IF occ2 THEN n2 + 1 ELSE n2
    IN
    IF ~LetterFits(here, At(word, i)) THEN NoFit
    ELSE IF occ1 /\ ~is_adjacent_word(grid, s1[1], s1[2], Perp(direction),
                                      wordlist_sorted) THEN NoFit
    ELSE IF occ2 /\ ~is_adjacent_word(grid, s2[1], s2[2], Perp(direction),
                                      wordlist_sorted) THEN NoFit
    ELSE LetterLoop(grid, word, letter_idx, row, col, direction,
                    wordlist_sorted, i + 1, n3)

\* BorderTaken that never finds a border cell occupied.
BorderFree(grid, word, letter_idx, row, col, direction) == FALSE

\* The two border checks: the cell before the first letter, when the word
\* does not start at the edge, or the cell after the last letter, when it
\* does not end at the edge, is not blank.
BorderTaken(grid, word, letter_idx, row, col, direction) ==
  LET size == SizeOf(grid)
      start == StartOf(row, col, letter_idx, direction)
      before == CellOf(row, col, letter_idx, direction, -1)
      after == CellOf(row, col, letter_idx, direction, Len(word))
  IN
  \/ start > 0 /\ Rd(grid, before[1], before[2]) # Blank
  \/ start + Len(word) < size /\ Rd(grid, after[1], after[2]) # Blank

is_valid_placement(grid, word, letter_idx, row, col, direction, wordlist_sorted) ==
  LET size == SizeOf(grid)
      start == StartOf(row, col, letter_idx, direction)
  IN
  IF ~SpanInGrid(start, Len(word), size) THEN NoFit
  ELSE IF BorderTaken(grid, word, letter_idx, row, col, direction) THEN NoFit
  ELSE LetterLoop(grid, word, letter_idx, row, col, direction,
                  wordlist_sorted, 0, 0)

\* The is_adjacent_word calls the letter loop makes from letter i on, as
\* (row, col, direction): a call for each occupied neighbour, up to the
\* first check that returns False.
RECURSIVE AdjacentCallsFrom(_, _, _, _, _, _, _, _)
AdjacentCallsFrom(grid, word, letter_idx, row, col, direction, wordlist_sorted, i) ==
  IF i >= Len(word) THEN {}
  ELSE
    LET cell == CellOf(row, col, letter_idx, direction, i)
        here == Rd(grid, cell[1], cell[2])
        occ1 == SideOccupied(grid, cell, direction, -1, i, letter_idx)
        s1 == SideOf(cell, direction, -1)
        call1 == IF occ1 THEN { << s1[1], s1[2], Perp(direction) >> } ELSE {}
        occ2 == SideOccupied(grid, cell, direction, 1, i, letter_idx)
        s2 == SideOf(cell, direction, 1)
        call2 == IF occ2 THEN { << s2[1], s2[2], Perp(direction) >> } ELSE {}
    IN
    IF ~LetterFits(here, At(word, i)) THEN {}
    ELSE IF occ1 /\ ~is_adjacent_word(grid, s1[1], s1[2], Perp(direction),
                                      wordlist_sorted) THEN call1
    ELSE IF occ2 /\ ~is_adjacent_word(grid, s2[1], s2[2], Perp(direction),
                                      wordlist_sorted) THEN call1 \cup call2
    ELSE call1 \cup call2 \cup
         AdjacentCallsFrom(grid, word, letter_idx, row, col, direction,
                           wordlist_sorted, i + 1)

\* The is_adjacent_word calls of one is_valid_placement call.
AdjacentCalls(grid, word, letter_idx, row, col, direction, wordlist_sorted) ==
  IF ~SpanInGrid(StartOf(row, col, letter_idx, direction), Len(word),
                 SizeOf(grid)) THEN {}
  ELSE IF BorderTaken(grid, word, letter_idx, row, col, direction) THEN {}
  ELSE AdjacentCallsFrom(grid, word, letter_idx, row, col, direction,
                         wordlist_sorted, 0)

\* The cells is_valid_placement (and is_adjacent_word through it) may index:
\* nothing after a failed bounds check, else the two border cells when their
\* guards hold, the cells of the span, and the guarded neighbours of the span.
ValidPlacementCells(size, word, letter_idx, row, col, direction) ==
  LET start == StartOf(row, col, letter_idx, direction)
      span == { CellOf(row, col, letter_idx, direction, i) :
                  i \in 0..(Len(word) - 1) }
  IN
  IF ~SpanInGrid(start, Len(word), size) THEN {}
  ELSE (IF start > 0
        THEN { CellOf(row, col, letter_idx, direction, -1) } ELSE {})
       \cup (IF start + Len(word) < size
             THEN { CellOf(row, col, letter_idx, direction, Len(word)) }
             ELSE {})
       \cup span
       \cup { SideOf(cell, direction, d) :
                cell \in { x \in span : SideGuard(x, direction, -1, size) },
                d \in {-1} }
       \cup { SideOf(cell, direction, d) :
                cell \in { x \in span : SideGuard(x, direction, 1, size) },
                d \in {1} }

(***************************************************************************)
(* find_best_placement                                                     *)
(***************************************************************************)

\* best_score = -1, best_position = None
NoBest == [score |-> -1, found |-> FALSE, row |-> 0, col |-> 0,
           letter_idx |-> 0, direction |-> ""]

\* Better with the strict comparison valid[1] > best_score.
BetterStrict(best, valid, row, col, i, direction) ==
  IF valid.valid /\ valid.n > best.score
  THEN [score |-> valid.n, found |-> TRUE, row |-> row, col |-> col,
        letter_idx |-> i, direction |-> direction]
  ELSE best

\* if valid and valid[1] >= best_score: take the placement
Better(best, valid, row, col, i, direction) ==
  IF valid.valid /\ valid.n >= best.score
  THEN [score |-> valid.n, found |-> TRUE, row |-> row, col |-> col,
        letter_idx |-> i, direction |-> direction]
  ELSE best

\* LetterMatch that lets every cell through.
LetterMatchAlways(word, i, cell) == TRUE

\* if letter == grid[row][col], with letter = word[i]
LetterMatch(word, i, cell) == At(word, i) = cell

\* The body of the innermost loop: one grid cell against letter i, H then V.
ScanCell(best, word, grid, wordlist_sorted, i, row, col) ==
  IF LetterMatch(word, i, Rd(grid, row, col))
  THEN LET h == Better(best,
                       is_valid_placement(grid, word, i, row, col, "H",
                                          wordlist_sorted),
                       row, col, i, "H")
       IN Better(h,
                 is_valid_placement(grid, word, i, row, col, "V",
                                    wordlist_sorted),
                 row, col, i, "V")
  ELSE best

\* The cells the three nested loops do not skip: (i, row, col) with
\* word[i] == grid[row][col].
Hits(word, grid) ==
  LET size == SizeOf(grid) IN
  { t \in (0..(Len(word) - 1)) \X (0..(size - 1)) \X (0..(size - 1)) :
      LetterMatch(word, t[1], grid[t[2]][t[3]]) }

\* The position of (i, row, col) in the order of the nested loops: letter
\* index outermost, then row, then column.
ScanRank(t, size) == (t[1] * size + t[2]) * size + t[3]

\* The nested loops over the cells still to be scanned, in loop order.
RECURSIVE ScanLoop(_, _, _, _, _)
ScanLoop(best, word, grid, wordlist_sorted, todo) ==
  IF todo = {} THEN best
  ELSE LET size == SizeOf(grid)
           t == CHOOSE x \in todo :
                  \A y \in todo : ScanRank(x, size) <= ScanRank(y, size)
           next == ScanCell(best, word, grid, wordlist_sorted,
                            t[1], t[2], t[3])
       IN ScanLoop(next, word, grid, wordlist_sorted, todo \ {t})

\* The tuple returned: best_position, or (False, False, False, False), whose
\* members are falsy like 0 and the empty string.
find_best_placement(word, grid, wordlist_sorted) ==
  LET best == ScanLoop(NoBest, word, grid, wordlist_sorted, Hits(word, grid)) IN
  IF ~best.found
  THEN [row |-> 0, col |-> 0, letter_idx |-> 0, direction |-> ""]
  ELSE [row |-> best.row, col |-> best.col, letter_idx |-> best.letter_idx,
        direction |-> best.direction]

\* Truthy without the test of the direction.
TruthyNumbers(p) ==
  p.row # 0 \/ p.col # 0 \/ p.letter_idx # 0

\* if row or col or letter_idx or direction
Truthy(p) ==
  p.row # 0 \/ p.col # 0 \/ p.letter_idx # 0 \/ p.direction # ""

\* The cells indexed while find_best_placement runs for a word: the cells of
\* the scan, and those of every is_valid_placement call it makes.
SearchCells(word, grid) ==
  LET size == SizeOf(grid)
      scan == (0..(size - 1)) \X (0..(size - 1))
  IN scan \cup
     UNION { ValidPlacementCells(size, word, t[1], t[2], t[3], d) :
               t \in Hits(word, grid), d \in {"H", "V"} }

\* Some index of the cells is outside [0, size).
AnyOutside(cells, size) ==
  \E cell \in cells : ~(Inside(cell[1], size) /\ Inside(cell[2], size))

\* Some index of the cells makes Python raise IndexError.
AnyRaises(cells, size) ==
  \E cell \in cells : ~(IndexOK(cell[1], size) /\ IndexOK(cell[2], size))

(***************************************************************************)
(* generate and build_crossword: the state machine                         *)
(***************************************************************************)

VARIABLES
  wordlist,          \* the argument of generate
  wordlist_sorted,   \* generate: sorted(wordlist, key=len, reverse=True)
  grid_size,         \* generate: grid_size
  iter,              \* generate: the loop variable i of for i in range(max_iter)
  candidate_grids,   \* generate: blank count -> (crossword, placements)
  grid,              \* the grid of the attempt under construction (empty between attempts)
  placements,        \* the placement map of the attempt under construction
  widx,              \* build_crossword: the loop variable i over words
  pc,                \* "start", "loop", "placing", "done", "raised"
  result,            \* what generate returned or raised
  matched,           \* history: slot -> the (row, col, letter_idx) given to place_word
  recorded,          \* history: the blank counts of all complete attempts
  oob,               \* history: some grid index so far was outside [0, size)
  tries              \* history: attempts finished at the current grid_size, capped

vars == << wordlist, wordlist_sorted, grid_size, iter, candidate_grids, grid,
           placements, widx, pc, result, matched, recorded, oob, tries >>

\* No grid, no placements.
Nothing == [kind |-> "pending", grid |-> init_grid(0), placements |-> << >>]

Init ==
  /\ wordlist \in WordLists
  /\ wordlist_sorted = << >>
  /\ grid_size = 0
  /\ iter = 0
  /\ candidate_grids = << >>
  /\ grid = init_grid(0)
  /\ placements = << >>
  /\ widx = 0
  /\ pc = "start"
  /\ result = Nothing
  /\ matched = << >>
  /\ recorded = {}
  /\ oob = FALSE
  /\ tries = 0

\* IsComplete with the comparison loosened to "some word was placed".
IsCompleteSomePlaced(pl, ws) == Cardinality(DOMAIN pl) >= 1

\* len(placements.keys()) == len(wordlist_sorted)
IsComplete(pl, ws) == Cardinality(DOMAIN pl) = Len(ws)

\* Escalate on the last attempt of every group of five instead of the first.
EscalateLate(size, i) ==
  IF i % EscalationPeriod = EscalationPeriod - 1 THEN size + 1 ELSE size

\* the else branch of generate's loop: if i % 5 == 0: grid_size += 1
Escalate(size, i) ==
  IF i % EscalationPeriod = 0 THEN size + 1 ELSE size

\* InitialSize one larger than the longest word.
InitialSizePlusOne(ws) == Len(ws[1]) + 1

\* grid_size = len(wordlist_sorted[0])
InitialSize(ws) == Len(ws[1])

\* Store that leaves the dictionary as it was.
StoreNothing(cands, key, g, pl) == cands

\* candidate_grids[key] = (crossword, placements)
Store(cands, key, g, pl) ==
  [k \in (DOMAIN cands) \cup {key} |->
     IF k = key THEN [grid |-> g, placements |-> pl] ELSE cands[k]]

\* InLoop for a loop of a single attempt.
InLoopOnce(i) == i < 1

\* for i in range(max_iter): the loop body runs for i
InLoop(i) == i < max_iter

\* One more attempt finished at the current grid size; the count stops at
\* the escalation period.
CountTry(n) == IF n < EscalationPeriod THEN n + 1 ELSE n

\* The placement map has an entry for every input word.
AllPlaced(pl, wl) == DOMAIN pl = 1..Len(wl)

\* WinnerKey taking the last key of the sorted keys instead of the first.
WinnerKeyLast(cands) ==
  CHOOSE k \in DOMAIN cands : \A j \in DOMAIN cands : k >= j

\* sorted(candidate_grids.keys())[0]
WinnerKey(cands) ==
  CHOOSE k \in DOMAIN cands : \A j \in DOMAIN cands : k <= j

\* generate, lines 353-361, for a non-empty list.
GenerateStart ==
  /\ pc = "start"
  /\ wordlist # << >>
  /\ wordlist_sorted' = SortedByLen(wordlist)
  /\ grid_size' = InitialSize(SortedByLen(wordlist))
  /\ iter' = 0
  /\ candidate_grids' = << >>
  /\ pc' = "loop"
  /\ UNCHANGED << wordlist, grid, placements, widx, result, matched,
                  recorded, oob, tries >>

\* generate, line 357, for the empty list: wordlist_sorted[0] raises IndexError.
GenerateRaise ==
  /\ pc = "start"
  /\ wordlist = << >>
  /\ wordlist_sorted' = SortedByLen(wordlist)
  /\ pc' = "raised"
  /\ result' = [Nothing EXCEPT !.kind = "IndexError"]
  /\ UNCHANGED << wordlist, grid_size, iter, candidate_grids, grid,
                  placements, widx, matched, recorded, oob, tries >>

\* One iteration of generate begins: init_grid, then build_crossword up to
\* and including place_first, with the draw (direction, offset).
PlaceFirst ==
  /\ pc = "loop"
  /\ InLoop(iter)
  /\ \E direction \in {"V", "H"}, off \in 0..(grid_size - 1) :
     \E row \in { IF direction = "H" THEN off ELSE 0 } :
     \E col \in { IF direction = "H" THEN 0 ELSE off } :
     \E placed \in { place_word(init_grid(grid_size), wordlist_sorted[1], 0,
                                row, col, direction, << >>, 1) } :
     \E cells \in { PlaceWordCells(wordlist_sorted[1], 0, row, col,
                                   direction) } :
       /\ oob' = (oob \/ AnyOutside(cells, grid_size))
       /\ IF AnyRaises(cells, grid_size)
          THEN /\ pc' = "raised"
               /\ result' = [Nothing EXCEPT !.kind = "IndexError"]
               /\ UNCHANGED << grid, placements, matched >>
          ELSE /\ pc' = "placing"
               /\ grid' = placed.grid
               /\ placements' = placed.placements
               /\ matched' = [k \in {1} |-> << row, col, 0 >>]
               /\ UNCHANGED result
  /\ widx' = 0
  /\ UNCHANGED << wordlist, wordlist_sorted, grid_size, iter,
                  candidate_grids, recorded, tries >>

\* One iteration of build_crossword's loop: find_best_placement for
\* words[widx], and place_word when a placement is returned.
PlaceNext ==
  /\ pc = "placing"
  /\ widx < Len(wordlist_sorted) - 1
  /\ \E word \in { wordlist_sorted[widx + 2] } :
     \E p \in { find_best_placement(word, grid, wordlist_sorted) } :
     \E placed \in { place_word(grid, word, p.letter_idx, p.row, p.col,
                                p.direction, placements, widx + 2) } :
     \E cells \in { SearchCells(word, grid) \cup
                    (IF Truthy(p)
                     THEN PlaceWordCells(word, p.letter_idx, p.row, p.col,
                                         p.direction)
                     ELSE {}) } :
     /\ oob' = (oob \/ AnyOutside(cells, grid_size))
     /\ IF AnyRaises(cells, grid_size)
        THEN /\ pc' = "raised"
             /\ result' = [Nothing EXCEPT !.kind = "IndexError"]
             /\ UNCHANGED << grid, placements, matched, widx >>
        ELSE /\ IF Truthy(p)
                THEN /\ grid' = placed.grid
                     /\ placements' = placed.placements
                     /\ matched' =
                          [k \in (DOMAIN matched) \cup {widx + 2} |->
                             IF k = widx + 2
                             THEN << p.row, p.col, p.letter_idx >>
                             ELSE matched[k]]
                ELSE UNCHANGED << grid, placements, matched >>
             /\ widx' = widx + 1
             /\ UNCHANGED << pc, result >>
  /\ UNCHANGED << wordlist, wordlist_sorted, grid_size, iter,
                  candidate_grids, recorded, tries >>

\* build_crossword returned a complete placement map: generate stores the
\* candidate under its blank count.
RecordCandidate ==
  /\ pc = "placing"
  /\ widx = Len(wordlist_sorted) - 1
  /\ IsComplete(placements, wordlist_sorted)
  /\ \E key \in { count_blanks(grid) } :
     /\ candidate_grids' = Store(candidate_grids, key, grid, placements)
     /\ recorded' = IF AllPlaced(placements, wordlist)
                    THEN recorded \cup {key} ELSE recorded
  /\ iter' = iter + 1
  /\ pc' = "loop"
  /\ grid' = init_grid(0)
  /\ placements' = << >>
  /\ matched' = << >>
  /\ widx' = 0
  /\ tries' = CountTry(tries)
  /\ UNCHANGED << wordlist, wordlist_sorted, grid_size, result, oob >>

\* build_crossword returned an incomplete placement map: the attempt is
\* dropped and the grid size goes up when i % 5 == 0.
DiscardAttempt ==
  /\ pc = "placing"
  /\ widx = Len(wordlist_sorted) - 1
  /\ ~IsComplete(placements, wordlist_sorted)
  /\ grid_size' = Escalate(grid_size, iter)
  /\ iter' = iter + 1
  /\ pc' = "loop"
  /\ grid' = init_grid(0)
  /\ placements' = << >>
  /\ matched' = << >>
  /\ widx' = 0
  /\ tries' = IF Escalate(grid_size, iter) = grid_size
               THEN CountTry(tries) ELSE 0
  /\ UNCHANGED << wordlist, wordlist_sorted, candidate_grids, result,
                  recorded, oob >>

\* After the loop, with a candidate: return the one under the smallest key.
ReturnWinner ==
  /\ pc = "loop"
  /\ ~InLoop(iter)
  /\ candidate_grids # << >>
  /\ result' = [kind |-> "returned",
                grid |-> candidate_grids[WinnerKey(candidate_grids)].grid,
                placements |->
                  candidate_grids[WinnerKey(candidate_grids)].placements]
  /\ pc' = "done"
  /\ UNCHANGED << wordlist, wordlist_sorted, grid_size, iter,
                  candidate_grids, grid, placements, widx, matched,
                  recorded, oob, tries >>

\* After the loop, without a candidate: print the notice and return None.
ReturnNone ==
  /\ pc = "loop"
  /\ ~InLoop(iter)
  /\ candidate_grids = << >>
  /\ result' = [Nothing EXCEPT !.kind = "None"]
  /\ pc' = "done"
  /\ UNCHANGED << wordlist, wordlist_sorted, grid_size, iter,
                  candidate_grids, grid, placements, widx, matched,
                  recorded, oob, tries >>

Next ==
  \/ GenerateStart
  \/ GenerateRaise
  \/ PlaceFirst
  \/ PlaceNext
  \/ RecordCandidate
  \/ DiscardAttempt
  \/ ReturnWinner
  \/ ReturnNone

Spec == Init /\ [][Next]_vars

\* The word lists of WordLists whose words have no letter in common with
\* one another: the calls in which no search finds a matching cell.
DisjointLists ==
  { wl \in WordLists :
      \A j, k \in DOMAIN wl :
        j # k => \A a \in DOMAIN wl[j], b \in DOMAIN wl[k] : wl[j][a] # wl[k][b] }

\* generate called with one of these lists.
FairInit == Init /\ wordlist \in DisjointLists

\* generate runs to its end: the interpreter takes the next step of the
\* call whenever there is one.
FairSpec == FairInit /\ [][Next]_vars /\ WF_vars(Next)

(***************************************************************************)
(* Reading a grid                                                          *)
(***************************************************************************)

\* The n cells read off the grid from pos, moving right (H) or down (V).
ReadWord(g, pos, direction, n) ==
  [j \in 1..n |->
     IF direction = "H" THEN Rd(g, pos[1], pos[2] + j - 1)
     ELSE Rd(g, pos[1] + j - 1, pos[2])]

\* Every entry of the placement map reads back off the grid as its word.
RoundTrip(g, pl) ==
  \A k \in DOMAIN pl :
    ReadWord(g, pl[k].pos, pl[k].dir, Len(pl[k].word)) = pl[k].word

\* The cell number j of line number l: a row (axis "H") or a column ("V").
LineCell(g, axis, l, j) == IF axis = "H" THEN g[l][j] ELSE g[j][l]

\* The maximal runs of two or more non-blank cells, in every row and column.
Runs(g) ==
  LET size == SizeOf(g)
      idx == 0..(size - 1)
  IN { [j \in 1..(t[4] - t[3] + 1) |-> LineCell(g, t[1], t[2], t[3] + j - 1)] :
         t \in { u \in {"H", "V"} \X idx \X idx \X idx :
                   /\ u[3] < u[4]
                   /\ \A j \in u[3]..u[4] : LineCell(g, u[1], u[2], j) # Blank
                   /\ (u[3] = 0 \/ LineCell(g, u[1], u[2], u[3] - 1) = Blank)
                   /\ (u[4] = size - 1
                       \/ LineCell(g, u[1], u[2], u[4] + 1) = Blank) } }

\* Every run of two or more letters is a word of the list.
OrphanFree(g, wl) == \A run \in Runs(g) : InList(run, wl)

(***************************************************************************)
(* Properties                                                              *)
(***************************************************************************)

\* C1: whenever generate returns a (grid, placement map) pair, the map has
\* exactly one entry per input word; every stored candidate is complete too,
\* and a list of two or more words without a common letter never succeeds.
C1_CompleteOnSuccess ==
  /\ result.kind = "returned" =>
       /\ Cardinality(DOMAIN result.placements) = Len(wordlist)
       /\ AllPlaced(result.placements, wordlist)
  /\ \A k \in DOMAIN candidate_grids :
       Cardinality(DOMAIN candidate_grids[k].placements) = Len(wordlist)

\* generate returned a pair for a list of four words.
C1_Witness ==
  /\ pc = "done"
  /\ result.kind = "returned"
  /\ Len(wordlist) = 4
  /\ Cardinality(DOMAIN result.placements) = 4

\* C2: every entry (word, anchor, direction) of a returned placement map
\* reads back off the returned grid as that word, and within an attempt every
\* word placed so far still reads back after each later placement.
C2_RoundTrip ==
  /\ result.kind = "returned" => RoundTrip(result.grid, result.placements)
  /\ pc = "placing" => RoundTrip(grid, placements)
  /\ \A k \in DOMAIN candidate_grids :
       RoundTrip(candidate_grids[k].grid, candidate_grids[k].placements)

\* generate returned a grid on which words cross, read back entry by entry.
C2_Witness ==
  /\ pc = "done"
  /\ result.kind = "returned"
  /\ Cardinality(DOMAIN result.placements) >= 2
  /\ \E k \in DOMAIN result.placements :
       k > 1 /\ result.placements[k].dir # result.placements[1].dir
  /\ RoundTrip(result.grid, result.placements)

\* C3: in every returned grid, and after every placement of an attempt, each
\* maximal run of two or more non-blank cells in a row or a column is a word
\* of the input list.
C3_NoOrphanRuns ==
  /\ pc = "placing" => OrphanFree(grid, wordlist)
  /\ result.kind = "returned" => OrphanFree(result.grid, wordlist)
\* C4: the returned grid has no more blank cells than any complete attempt
\* recorded during the call.
C4_DensestWins ==
  result.kind = "returned" =>
    \A b \in recorded : count_blanks(result.grid) <= b

\* generate returned after complete attempts with different blank counts.
C4_Witness ==
  /\ pc = "done"
  /\ result.kind = "returned"
  /\ Cardinality(recorded) >= 2
  /\ \E b \in recorded : count_blanks(result.grid) < b

\* C5: for a non-empty list generate raises nothing; it returns None exactly
\* when no attempt was complete, and otherwise returns a stored candidate
\* whose blank count is the one of a complete attempt.
C5_NoneIffNoCandidate ==
  wordlist # << >> =>
    /\ pc # "raised"
    /\ pc = "done" =>
         /\ (result.kind = "None") <=> (recorded = {})
         /\ recorded # {} =>
              /\ result.kind = "returned"
              /\ count_blanks(result.grid) \in recorded
              /\ \E k \in DOMAIN candidate_grids :
                   /\ candidate_grids[k].grid = result.grid
                   /\ candidate_grids[k].placements = result.placements

\* generate returned None after 100 attempts, none of them complete.
C5_Witness ==
  /\ pc = "done"
  /\ wordlist # << >>
  /\ iter = max_iter
  /\ recorded = {}
  /\ result.kind = "None"

\* C6: generate called with the empty list returns None and raises nothing.
C6_EmptyListReturnsNone ==
  wordlist = << >> =>
    /\ pc # "raised"
    /\ pc \in {"done", "raised"} => result.kind = "None"

\* C7: for a list of one word of length L the grid size is L throughout,
\* generate returns an L x L grid, and the placement map has the single
\* entry 1, whose word fills a whole row from column 0 or a whole column
\* from row 0.
C7_SingleWord ==
  Len(wordlist) = 1 =>
    LET L == Len(wordlist[1]) IN
    /\ pc # "start" => grid_size = L
    /\ pc # "raised"
    /\ pc = "done" =>
         /\ result.kind = "returned"
         /\ SizeOf(result.grid) = L
         /\ DOMAIN result.placements = {1}
         /\ result.placements[1].word = wordlist[1]
         /\ \/ /\ result.placements[1].dir = "H"
               /\ result.placements[1].pos[2] = 0
               /\ \A c \in 0..(L - 1) :
                    result.grid[result.placements[1].pos[1]][c]
                      = At(wordlist[1], c)
            \/ /\ result.placements[1].dir = "V"
               /\ result.placements[1].pos[1] = 0
               /\ \A r \in 0..(L - 1) :
                    result.grid[r][result.placements[1].pos[2]]
                      = At(wordlist[1], r)

\* generate returned for a list of one word of three letters.
C7_Witness ==
  /\ pc = "done"
  /\ Len(wordlist) = 1
  /\ Len(wordlist[1]) = 3
  /\ result.kind = "returned"

\* C8: during a call on a non-empty list no grid index is outside [0, size),
\* and no IndexError is raised.
C8_InBounds ==
  wordlist # << >> => (~oob /\ pc # "raised")

\* A word was placed up to the last row or column of a grid that had grown,
\* after the validator tried placements on it.
C8_Witness ==
  /\ pc = "placing"
  /\ ~oob
  /\ grid_size > InitialSize(wordlist_sorted)
  /\ \E k \in DOMAIN placements :
       /\ k > 1
       /\ LET last == CellOf(placements[k].pos[1], placements[k].pos[2], 0,
                             placements[k].dir, Len(placements[k].word) - 1)
          IN last[1] = grid_size - 1 \/ last[2] = grid_size - 1

\* The position recorded for a word matched at (row, col) with letter_idx.
ShiftedBack(m, direction) ==
  IF direction = "H" THEN << m[1], m[2] - m[3] >> ELSE << m[1] - m[3], m[2] >>

\* C9: the keys of a placement map are slot numbers in 1..N, slot 1 is
\* present, slot k holds the k-th word of the sorted list, and the position
\* of an entry is the matched cell shifted back by the anchor letter index
\* along the placement direction.
C9_SlotsAndAnchors ==
  /\ pc = "placing" =>
       /\ DOMAIN placements \subseteq 1..Len(wordlist_sorted)
       /\ 1 \in DOMAIN placements
       /\ DOMAIN matched = DOMAIN placements
       /\ \A k \in DOMAIN placements :
            /\ placements[k].word = wordlist_sorted[k]
            /\ placements[k].pos = ShiftedBack(matched[k], placements[k].dir)
            /\ Rd(grid, matched[k][1], matched[k][2])
                 = At(placements[k].word, matched[k][3])
  /\ \A b \in DOMAIN candidate_grids :
       /\ DOMAIN candidate_grids[b].placements \subseteq 1..Len(wordlist_sorted)
       /\ 1 \in DOMAIN candidate_grids[b].placements
       /\ \A k \in DOMAIN candidate_grids[b].placements :
            candidate_grids[b].placements[k].word = wordlist_sorted[k]

\* A word was placed through a letter that is not its first.
C9_Witness ==
  /\ pc = "placing"
  /\ \E k \in DOMAIN placements :
       /\ k > 1
       /\ matched[k][3] > 0
       /\ placements[k].pos # << matched[k][1], matched[k][2] >>

\* C10 as stated: at every attempt with i % 5 == 0 the grid size goes up by
\* one, whether or not the attempt was complete.
C10_EscalatesEveryFifth ==
  [][ (pc = "placing" /\ pc' = "loop" /\ iter % EscalationPeriod = 0)
        => grid_size' = grid_size + 1 ]_vars

\* C10 amended: the grid size goes up by one at exactly the attempts with
\* i % 5 == 0 that did not place every word, is unchanged by every other
\* attempt, and never decreases.
C10_EscalatesOnFailedFifth ==
  [][ /\ (pc = "placing" /\ pc' = "loop") =>
           grid_size' = IF iter % EscalationPeriod = 0
                           /\ ~AllPlaced(placements, wordlist)
                        THEN grid_size + 1 ELSE grid_size
      /\ grid_size' >= grid_size ]_vars

\* A complete attempt with i % 5 == 0 has left the grid size alone, after an
\* incomplete one had raised it.
C10_Witness ==
  /\ pc = "loop"
  /\ iter = 2 * EscalationPeriod + 1
  /\ grid_size = InitialSize(wordlist_sorted) + 1
  /\ recorded # {}

\* C11: generate finishes at least 5 attempts at a grid size before it
\* raises the grid size; in particular the initial size is tried at least 5
\* times before any escalation.
C11_FiveTriesBeforeEscalation ==
  [][ (pc = "placing" /\ grid_size' > grid_size) => tries + 1 >= 5 ]_vars

\* The candidates find_best_placement hands to is_valid_placement and that
\* pass it, each with its overlap count: a letter index and a cell holding
\* that letter, in either direction.
ValidCandidates(word, g, ws) ==
  { [letter_idx |-> t[1], row |-> t[2], col |-> t[3], direction |-> d,
     n |-> is_valid_placement(g, word, t[1], t[2], t[3], d, ws).n] :
      << t, d >> \in { x \in Hits(word, g) \X {"H", "V"} :
                        is_valid_placement(g, word, x[1][1], x[1][2], x[1][3],
                                           x[2], ws).valid } }

\* The position of a candidate in the scan: letter index, row, column, and
\* H before V.
CandRank(c, size) ==
  2 * ScanRank(<< c.letter_idx, c.row, c.col >>, size)
    + (IF c.direction = "V" THEN 1 ELSE 0)

\* C12: find_best_placement returns no placement iff no candidate with a
\* matching grid letter passes is_valid_placement; otherwise it returns a
\* valid candidate with the maximal overlap count, and among those the one
\* scanned last (letter index, row, column, H before V).
C12_BestPlacement ==
  (pc = "placing" /\ widx < Len(wordlist_sorted) - 1) =>
    \A word \in { wordlist_sorted[widx + 2] } :
    \A p \in { find_best_placement(word, grid, wordlist_sorted) } :
    \A valid \in { ValidCandidates(word, grid, wordlist_sorted) } :
      /\ (p.direction = "") <=> (valid = {})
      /\ valid # {} =>
           \E c \in valid :
             /\ p = [row |-> c.row, col |-> c.col,
                     letter_idx |-> c.letter_idx, direction |-> c.direction]
             /\ \A o \in valid :
                  \/ o.n < c.n
                  \/ /\ o.n = c.n
                     /\ CandRank(o, grid_size) <= CandRank(c, grid_size)

\* find_best_placement is about to choose among several valid candidates
\* that share the maximal overlap count.
C12_Witness ==
  /\ pc = "placing"
  /\ widx < Len(wordlist_sorted) - 1
  /\ \E valid \in { ValidCandidates(wordlist_sorted[widx + 2], grid,
                                     wordlist_sorted) } :
       \E a, b \in valid :
         /\ a # b
         /\ a.n = b.n
         /\ \A o \in valid : o.n <= a.n

\* The number of non-blank cells that follow (row, col) without a gap in the
\* direction, backwards (sign -1) or forwards (sign 1), up to the grid edge.
Reach(g, row, col, direction, sign) ==
  Cardinality({ k \in 1..SizeOf(g) :
                  \A j \in 1..k :
                    LET cell == Along(row, col, direction, sign * j) IN
                    /\ Inside(cell[1], SizeOf(g))
                    /\ Inside(cell[2], SizeOf(g))
                    /\ g[cell[1]][cell[2]] # Blank })

\* The run through (row, col) goes on past the last cell the bounded scan of
\* is_adjacent_word reads, on one side or the other.
ScanCutOff(g, row, col, direction, ws) ==
  \/ Reach(g, row, col, direction, -1) > MaxLen(ws) - 1
  \/ Reach(g, row, col, direction, 1) > MaxLen(ws) - 1

\* The is_adjacent_word calls made while find_best_placement runs for a word.
SearchCalls(word, g, ws) ==
  UNION { AdjacentCalls(g, word, t[1], t[2], t[3], d, ws) :
            t \in Hits(word, g), d \in {"H", "V"} }

\* C13: whenever the run of letters through the cell is_adjacent_word
\* inspects goes on past the end of its bounded scan, is_adjacent_word
\* returns False instead of testing the truncated string against the list.
C13_FailsClosedAtBound ==
  (pc = "placing" /\ widx < Len(wordlist_sorted) - 1) =>
    \A call \in SearchCalls(wordlist_sorted[widx + 2], grid, wordlist_sorted) :
      ScanCutOff(grid, call[1], call[2], call[3], wordlist_sorted) =>
        ~is_adjacent_word(grid, call[1], call[2], call[3], wordlist_sorted)

\* The cell lies on the grid.
OnGrid(cell, size) == Inside(cell[1], size) /\ Inside(cell[2], size)

\* The span of the placement is on the grid, and the cell before its first
\* letter and the cell after its last letter are blank or off the grid.
Isolated(g, word, letter_idx, row, col, direction) ==
  /\ \A cell \in PlaceWordCells(word, letter_idx, row, col, direction) :
       OnGrid(cell, SizeOf(g))
  /\ \A cell \in { CellOf(row, col, letter_idx, direction, -1),
                    CellOf(row, col, letter_idx, direction, Len(word)) } :
       OnGrid(cell, SizeOf(g)) => g[cell[1]][cell[2]] = Blank

\* The slot of the word placed last in the attempt under construction.
LastSlot(pl) == CHOOSE k \in DOMAIN pl : \A j \in DOMAIN pl : j <= k

\* The maximal run of letters along the entry's axis through its first cell
\* is the entry's word: nothing before it, nothing after it.
ExactRun(g, entry) ==
  /\ ReadWord(g, entry.pos, entry.dir, Len(entry.word)) = entry.word
  /\ Reach(g, entry.pos[1], entry.pos[2], entry.dir, -1) = 0
  /\ Reach(g, entry.pos[1], entry.pos[2], entry.dir, 1) = Len(entry.word) - 1

\* C14: is_valid_placement rejects every placement whose span is not
\* entirely on the grid and every placement with an occupied on-grid cell
\* right before its start or right after its end; hence, as long as the grid
\* is as the last accepted placement left it, the maximal run along the axis
\* of that placement through its cells is exactly the placed word.
C14_BorderIsolation ==
  pc = "placing" =>
    /\ widx < Len(wordlist_sorted) - 1 =>
         \A t \in Hits(wordlist_sorted[widx + 2], grid), d \in {"H", "V"} :
           is_valid_placement(grid, wordlist_sorted[widx + 2], t[1], t[2],
                              t[3], d, wordlist_sorted).valid
             => Isolated(grid, wordlist_sorted[widx + 2], t[1], t[2], t[3], d)
    /\ LastSlot(placements) >= 2 =>
         ExactRun(grid, placements[LastSlot(placements)])

\* A placement has been accepted and written, and the next word has a
\* candidate whose span is on the grid with an occupied border cell.
C14_Witness ==
  /\ pc = "placing"
  /\ widx < Len(wordlist_sorted) - 1
  /\ LastSlot(placements) >= 2
  /\ ExactRun(grid, placements[LastSlot(placements)])
  /\ \E t \in Hits(wordlist_sorted[widx + 2], grid), d \in {"H", "V"} :
       /\ \A cell \in PlaceWordCells(wordlist_sorted[widx + 2], t[1], t[2],
                                      t[3], d) : OnGrid(cell, grid_size)
       /\ ~Isolated(grid, wordlist_sorted[widx + 2], t[1], t[2], t[3], d)

\* C15: in build_crossword, when find_best_placement reports no placement
\* for a word, the grid and the placement map stay as they are and the
\* builder goes on to the next word; no slot other than the current word's
\* is ever filled or changed, so a skipped word is not retried; and a
\* reported placement, also one at row 0, column 0, letter index 0, is
\* always applied.
C15_SkipOrApply ==
  [][ (pc = "placing" /\ pc' = "placing") =>
        \A word \in { wordlist_sorted[widx + 2] } :
        \A p \in { find_best_placement(word, grid, wordlist_sorted) } :
          /\ widx' = widx + 1
          /\ p.direction = "" => grid' = grid /\ placements' = placements
          /\ p.direction # "" =>
               /\ DOMAIN placements' = DOMAIN placements \cup {widx + 2}
               /\ placements'[widx + 2].word = word
               /\ placements'[widx + 2].dir = p.direction
               /\ ReadWord(grid', placements'[widx + 2].pos, p.direction,
                           Len(word)) = word
               /\ grid'[p.row][p.col] = At(word, p.letter_idx)
          /\ \A k \in 1..(widx + 1) :
               /\ k \in DOMAIN placements' <=> k \in DOMAIN placements
               /\ k \in DOMAIN placements => placements'[k] = placements[k] ]_vars

\* A word after the first was reported at row 0, column 0, letter index 0
\* and has its slot in the placement map.
C15_Witness ==
  /\ pc = "placing"
  /\ \E k \in DOMAIN matched :
       /\ k >= 2
       /\ matched[k] = << 0, 0, 0 >>
       /\ k \in DOMAIN placements
       /\ placements[k].pos = << 0, 0 >>

\* C16: every generate call on a non-empty word list terminates, and it does
\* so after exactly 100 builder attempts, whether or not attempts were
\* complete; each builder attempt ends after one step for each word after
\* the first, in order.
C16_HundredAttempts ==
  /\ (wordlist # << >>) => <>(pc = "done")
  /\ [](pc = "done" => iter = 100)
  /\ [][ /\ (pc = "placing" /\ pc' = "loop") =>
             widx = Len(wordlist_sorted) - 1 /\ iter' = iter + 1
         /\ (pc = "placing" /\ pc' = "placing") => widx' = widx + 1
         /\ (pc = "loop" /\ pc' = "placing") => widx' = 0 /\ iter' = iter ]_vars

\* generate has returned a crossword after 100 attempts, the first complete
\* one among them long before the last.
C16_Witness ==
  /\ pc = "done"
  /\ iter = 100
  /\ result.kind = "returned"
  /\ tries = EscalationPeriod
  /\ recorded # {}

\* The cells a placement map entry covers.
EntryCells(entry) ==
  { IF entry.dir = "H" THEN << entry.pos[1], entry.pos[2] + j - 1 >>
    ELSE << entry.pos[1] + j - 1, entry.pos[2] >> : j \in 1..Len(entry.word) }

\* C18: within one builder attempt a cell that holds a letter keeps that
\* letter and never becomes blank again: every write of place_word for an
\* accepted placement goes to a blank cell or to a cell that already holds
\* the same letter.
C18_LettersStay ==
  [][ (pc = "placing" /\ pc' = "placing") =>
        /\ \A r, c \in 0..(grid_size - 1) :
             grid[r][c] # Blank => grid'[r][c] = grid[r][c]
        /\ (widx + 2) \in DOMAIN placements' =>
             \A j \in 1..Len(placements'[widx + 2].word) :
             \A cell \in { IF placements'[widx + 2].dir = "H"
                            THEN << placements'[widx + 2].pos[1],
                                    placements'[widx + 2].pos[2] + j - 1 >>
                            ELSE << placements'[widx + 2].pos[1] + j - 1,
                                    placements'[widx + 2].pos[2] >> } :
               /\ grid[cell[1]][cell[2]]
                    \in {Blank, placements'[widx + 2].word[j]}
               /\ grid'[cell[1]][cell[2]] = placements'[widx + 2].word[j] ]_vars

\* Two placed words cross: place_word has written a letter onto a cell that
\* already held it, and both words still read back off the grid.
C18_Witness ==
  /\ pc = "placing"
  /\ \E j, k \in DOMAIN placements :
       /\ j < k
       /\ EntryCells(placements[j]) \cap EntryCells(placements[k]) # {}
  /\ RoundTrip(grid, placements)

\* The cells of the grid that hold a letter.
FilledCells(g) ==
  { cell \in (0..(SizeOf(g) - 1)) \X (0..(SizeOf(g) - 1)) :
      g[cell[1]][cell[2]] # Blank }

\* Two cells share an edge.
Touching(a, b) ==
  \/ a[1] = b[1] /\ (a[2] = b[2] + 1 \/ b[2] = a[2] + 1)
  \/ a[2] = b[2] /\ (a[1] = b[1] + 1 \/ b[1] = a[1] + 1)

\* The cells of the set reached from seen by steps between touching cells.
RECURSIVE Flood(_, _)
Flood(seen, cells) ==
  LET more == { c \in cells \ seen : \E x \in seen : Touching(c, x) } IN
  IF more = {} THEN seen ELSE Flood(seen \cup more, cells)

\* The cells form one connected region.
Connected(cells) ==
  cells = {} \/ Flood({ CHOOSE c \in cells : TRUE }, cells) = cells

\* The letters of a word.
Letters(word) == { word[j] : j \in DOMAIN word }

\* The list has two or more words, and one of them has no letter in common
\* with any other.
LoneWord(wl) ==
  /\ Len(wl) >= 2
  /\ \E j \in DOMAIN wl :
       \A k \in DOMAIN wl \ {j} : Letters(wl[j]) \cap Letters(wl[k]) = {}

\* C19: every word placed after the first covers a cell that already held
\* the same letter, and its overlap count is at least 1, so the filled cells
\* of the grid are connected; a word none of whose letters is on the grid is
\* not placed; and a list of two or more words with a word that shares no
\* letter with any other word has every attempt incomplete and ends in the
\* failure result.
C19_Crossing ==
  /\ [](pc = "placing" => Connected(FilledCells(grid)))
  /\ [](LoneWord(wordlist) =>
          /\ candidate_grids = << >>
          /\ pc = "done" => result.kind = "None")
  /\ [][ (pc = "placing" /\ pc' = "placing") =>
          /\ (widx + 2) \in DOMAIN placements' =>
               /\ \E cell \in EntryCells(placements'[widx + 2]) :
                    /\ grid[cell[1]][cell[2]] # Blank
                    /\ grid[cell[1]][cell[2]] = grid'[cell[1]][cell[2]]
               /\ is_valid_placement(grid, wordlist_sorted[widx + 2],
                                     matched'[widx + 2][3],
                                     matched'[widx + 2][1],
                                     matched'[widx + 2][2],
                                     placements'[widx + 2].dir,
                                     wordlist_sorted).n >= 1
          /\ Letters(wordlist_sorted[widx + 2])
                \cap { grid[cell[1]][cell[2]] : cell \in FilledCells(grid) } = {}
               => placements' = placements /\ grid' = grid ]_vars

\* An attempt on a list with a lone word is over: the second word crosses
\* the first, the lone word has no slot.
C19_Witness ==
  /\ pc = "placing"
  /\ LoneWord(wordlist)
  /\ widx = Len(wordlist_sorted) - 1
  /\ 2 \in DOMAIN placements
  /\ 3 \notin DOMAIN placements
  /\ Connected(FilledCells(grid))

\* C20: for a non-empty word list whose longest word has length L, the grid
\* size of every attempt is at least L and at most L + 20; the size changes
\* only by +1, and only at the end of an incomplete attempt whose index is a
\* multiple of 5.
C20_GridSizeBounded ==
  /\ [](pc \in {"loop", "placing", "done"} =>
          /\ grid_size >= MaxLen(wordlist)
          /\ grid_size <= MaxLen(wordlist) + 20)
  /\ [][ (pc # "start" /\ grid_size' # grid_size) =>
          /\ grid_size' = grid_size + 1
          /\ pc = "placing" /\ pc' = "loop"
          /\ iter % 5 = 0
          /\ Cardinality(DOMAIN placements) < Len(wordlist) ]_vars

\* An attempt is under way on the largest grid, 20 larger than the longest
\* word.
C20_Witness ==
  /\ pc = "placing"
  /\ wordlist # << >>
  /\ grid_size = MaxLen(wordlist) + 20

=============================================================================
